---- MODULE Spec2Model ----
(***************************************************************************)
(* ALEIS (Aadhaar Life-Event Intelligence System): the monthly pipeline of *)
(* main.py (run_aleis_pipeline) and the functions it calls:                *)
(* detect_anomalies, temporal_concentration, check_region_coverage and the *)
(* outer-merge consolidation.                                              *)
(*                                                                         *)
(* Numbers.  The code computes in IEEE floating point, where a value is    *)
(* either NaN or a number.  The model keeps numbers exact:                 *)
(*   - a cell of a table or an element of a series is a record             *)
(*     [nan, v]: NaN, or the integer v;                                    *)
(*   - a quotient that involves a standard deviation (a z-score, a         *)
(*     coefficient of variation) is a record [nan, sgn, num, den]: NaN, or *)
(*     the real number  sgn * sqrt(num / den).                             *)
(* Rounding of floating point is not modelled.                             *)
(***************************************************************************)
EXTENDS Integers, Sequences, FiniteSets, TLC

\* ------------------------------------------------------------------ bounds
\* Longest generated series, and the largest absolute value in one.
MaxLen == 4
MaxVal == 2
\* Largest per-key sum in a generated per-source aggregate.
MaxCount == 1
\* Most rows in a generated source table.
MaxRows == 2

\* ----------------------------------------------------------------- numbers
NaN == [nan |-> TRUE, v |-> 0]
Real(i) == [nan |-> FALSE, v |-> i]
NaNQ == [nan |-> TRUE, sgn |-> 0, num |-> 0, den |-> 1]
ZeroQ == [nan |-> FALSE, sgn |-> 0, num |-> 0, den |-> 1]

Sign(i) == IF i > 0 THEN 1 ELSE IF i < 0 THEN -1 ELSE 0

\* sgn * sqrt(num / den), den > 0.
Quot(sgn, num, den) ==
    IF num = 0 \/ sgn = 0 THEN ZeroQ
    ELSE [nan |-> FALSE, sgn |-> sgn, num |-> num, den |-> den]

NotNaN(x) == ~x.nan

RECURSIVE SumV(_)
SumV(s) == IF s = <<>> THEN 0 ELSE Head(s).v + SumV(Tail(s))

RECURSIVE SumSq(_)
SumSq(s) == IF s = <<>> THEN 0 ELSE Head(s).v * Head(s).v + SumSq(Tail(s))

HasNaN(s) == \E i \in 1..Len(s) : s[i].nan

\* n * sum(x^2) - (sum x)^2  =  n * (sum of squared deviations from the mean)
Spread(s) == Len(s) * SumSq(s) - SumV(s) * SumV(s)

\* pandas Series.std(): skipna=True, ddof=1.  The result is the variance
\* (the square of the standard deviation) as the fraction num/den, or NaN when
\* fewer than two values are left.
PandasStd(series) ==
    LET s == SelectSeq(series, NotNaN)
        n == Len(s)
    IN  IF n < 2 THEN [nan |-> TRUE, num |-> 0, den |-> 1]
        ELSE [nan |-> FALSE, num |-> Spread(s), den |-> n * (n - 1)]

\* `std == 0` on a float: false for NaN.
StdIsZero(sd) == ~sd.nan /\ sd.num = 0

\* scipy.stats.zscore(series): ddof=0, nan_policy='propagate'.
\* z_i = (x_i - mean) / std_pop; mean is NaN when any element is NaN, and a
\* zero population deviation gives 0/0 = NaN.
ZScore(series) ==
    LET n == Len(series)
        S == SumV(series)
        D == Spread(series)
    IN  [i \in 1..n |->
            IF HasNaN(series) \/ D = 0 THEN NaNQ
            ELSE Quot(Sign(n * series[i].v - S),
                      (n * series[i].v - S) * (n * series[i].v - S), D)]

\* np.nan_to_num
NanToNum(z) == IF z.nan THEN ZeroQ ELSE z

\* np.abs(z) > threshold, threshold = num/den with den > 0
AbsExceeds(z, threshold) ==
    IF threshold.num < 0 THEN TRUE
    ELSE z.num * threshold.den * threshold.den
            > threshold.num * threshold.num * z.den

DefaultThreshold == [num |-> 5, den |-> 2]

\* ---------------------------------------------------------- detect_anomalies
\* Mutant: the comparison with the threshold turned round.
detect_anomalies_flipped(series, threshold) ==
    IF StdIsZero(PandasStd(series))
    THEN [i \in 1..Len(series) |-> FALSE]
    ELSE LET z == ZScore(series)
         IN  [i \in 1..Len(series) |-> ~AbsExceeds(NanToNum(z[i]), threshold)]

detect_anomalies(series, threshold) ==
    IF StdIsZero(PandasStd(series))
    THEN [i \in 1..Len(series) |-> FALSE]
    ELSE LET z == ZScore(series)
         IN  [i \in 1..Len(series) |-> AbsExceeds(NanToNum(z[i]), threshold)]

\* ---------------------------------------------------- temporal_concentration
\* Returns the value and whether the division std / mu was executed.
\* Mutant: the division without the zero-mean guard; x/0 is inf, 0/0 is NaN.
temporal_concentration_unguarded(series) ==
    LET s == SelectSeq(series, NotNaN)
        n == Len(s)
        S == SumV(s)
        sd == PandasStd(series)
    IN  [value |-> IF n = 0 \/ sd.nan \/ (S = 0 /\ sd.num = 0) THEN NaNQ
                   ELSE IF S = 0 THEN [nan |-> FALSE, sgn |-> 1, num |-> 1, den |-> 0]
                   ELSE Quot(Sign(S), n * sd.num, (n - 1) * S * S),
         divided |-> TRUE]

temporal_concentration(series) ==
    LET s == SelectSeq(series, NotNaN)
        n == Len(s)
        S == SumV(s)
        sd == PandasStd(series)
    IN  IF n > 0 /\ S = 0
        THEN [value |-> ZeroQ, divided |-> FALSE]
        ELSE [value |-> IF n = 0 \/ sd.nan THEN NaNQ
                        ELSE Quot(Sign(S), n * sd.num, (n - 1) * S * S),
              divided |-> TRUE]

\* ----------------------------------------------------- check_region_coverage
NULL == "null"
nunique(col) == Cardinality({col[i] : i \in 1..Len(col)} \ {NULL})

LowCoverage == "Warning: Low regional coverage detected"

\* "ok" when the function returns, the raised Warning otherwise.
check_region_coverage(col) ==
    IF nunique(col) < 1 THEN LowCoverage ELSE "ok"

\* ------------------------------------------------------------------ tables
\* A region-month key is <<state, district, year, month>>.  KeySeq lists the
\* keys of the model in lexicographic order (the order pandas sorts them in).
KeySeq == << <<"MH", "Nashik", 2025, 1>>,
             <<"MH", "Pune", 2025, 1>>,
             <<"MH", "Pune", 2025, 2>> >>
Keys == {KeySeq[i] : i \in 1..Len(KeySeq)}

\* A DataFrame: its column names and its rows in order; a row is its key and
\* the cells of its value columns.
DataFrame(columns, rows) == [columns |-> columns, rows |-> rows]
EmptyDataFrame == DataFrame({}, <<>>)
Empty(df) == df.rows = <<>> \/ df.columns = {}

RowKeys(df) == {df.rows[i].key : i \in 1..Len(df.rows)}
RowsWithKey(df, k) == SelectSeq(df.rows, LAMBDA r : r.key = k)
Column(df, col) == [i \in 1..Len(df.rows) |-> df.rows[i].cols[col]]

NaNCols(columns) == [c \in columns |-> NaN]

\* The rows an outer join makes for key k: every pairing of a left row with a
\* right row; a side without the key contributes NaN cells.
JoinKey(left, right, k) ==
    LET L == RowsWithKey(left, k)
        R == RowsWithKey(right, k)
    IN  IF L = <<>>
        THEN [i \in 1..Len(R) |->
                [key |-> k, cols |-> NaNCols(left.columns) @@ R[i].cols]]
        ELSE IF R = <<>>
        THEN [i \in 1..Len(L) |->
                [key |-> k, cols |-> L[i].cols @@ NaNCols(right.columns)]]
        ELSE [j \in 1..(Len(L) * Len(R)) |->
                [key |-> k,
                 cols |-> L[((j - 1) \div Len(R)) + 1].cols
                            @@ R[((j - 1) % Len(R)) + 1].cols]]

RECURSIVE JoinFrom(_, _, _)
JoinFrom(left, right, i) ==
    IF i > Len(KeySeq) THEN <<>>
    ELSE JoinKey(left, right, KeySeq[i]) \o JoinFrom(left, right, i + 1)

\* pd.merge(left, right, on=[state, district, year, month], how="outer")
Merge(left, right) ==
    DataFrame(left.columns \cup right.columns, JoinFrom(left, right, 1))

\* Mutant: the fill left out.
FillNa0_skipped(df) == df

\* DataFrame.fillna(0)
FillNa0(df) ==
    DataFrame(df.columns,
              [i \in 1..Len(df.rows) |->
                  [key |-> df.rows[i].key,
                   cols |-> [c \in DOMAIN df.rows[i].cols |->
                                IF df.rows[i].cols[c].nan THEN Real(0)
                                ELSE df.rows[i].cols[c]]]])

\* The consolidation step of run_aleis_pipeline.
Consolidate(e_agg, d_agg, b_agg) ==
    LET first == FillNa0(Merge(e_agg, d_agg))
    IN  IF ~Empty(b_agg) THEN FillNa0(Merge(first, b_agg)) ELSE first

\* ------------------------------------------------------- pipeline stages
\* A raw source row: region, date <<year, month>> and one value column.
RawRow(k, col, c) ==
    [state |-> k[1], district |-> k[2], date |-> <<k[3], k[4]>>,
     cols |-> (col :> Real(c))]

\* check_empty(df): "raise" when the table has zero rows.
check_empty(df) == IF df.rows = <<>> THEN "raise" ELSE "ok"

\* add_time_features(clean_common_fields(df), "date"): year and month are
\* derived from the date, which completes the region-month key.
CleanTransform(df) ==
    DataFrame(df.columns,
              [i \in 1..Len(df.rows) |->
                  [key |-> <<df.rows[i].state, df.rows[i].district,
                             df.rows[i].date[1], df.rows[i].date[2]>>,
                   cols |-> df.rows[i].cols]])

RECURSIVE SumCol(_, _)
SumCol(rows, col) ==
    IF rows = <<>> THEN 0 ELSE Head(rows).cols[col].v + SumCol(Tail(rows), col)

\* aggregate_monthly(df, group_cols, value_col): one row per key that has
\* rows, in key order, holding the sum of value_col.
aggregate_monthly(df, value_col) ==
    LET ks == SelectSeq(KeySeq, LAMBDA k : k \in RowKeys(df))
    IN  DataFrame({value_col},
                  [i \in 1..Len(ks) |->
                      [key |-> ks[i],
                       cols |-> (value_col :>
                                   Real(SumCol(RowsWithKey(df, ks[i]), value_col)))]])

\* DataFrame.rename(columns={old: new})
Rename(df, old, new) ==
    DataFrame((df.columns \ {old}) \cup {new},
              [i \in 1..Len(df.rows) |->
                  [key |-> df.rows[i].key,
                   cols |-> [c \in (DOMAIN df.rows[i].cols \ {old}) \cup {new} |->
                                df.rows[i].cols[IF c = new THEN old ELSE c]]]])

\* validate_non_negative(df, col): "raise" when a value of col is negative.
validate_non_negative(df, col) ==
    IF \E i \in 1..Len(df.rows) : df.rows[i].cols[col].v < 0
    THEN "raise" ELSE "ok"

\* df[name] = values (one value per row)
WithColumn(df, name, values) ==
    DataFrame(df.columns \cup {name},
              [i \in 1..Len(df.rows) |->
                  [key |-> df.rows[i].key,
                   cols |-> (name :> values[i]) @@ df.rows[i].cols]])

SameRegion(k1, k2) == k1[1] = k2[1] /\ k1[2] = k2[2]

\* The rows of row i's (state, district) group, in row order.
GroupOf(df, i) ==
    SelectSeq(df.rows, LAMBDA r : SameRegion(r.key, df.rows[i].key))

\* enrolment_velocity(df, col): the change of col from the group's previous
\* period, 0 for the group's first period.
enrolment_velocity(df, col) ==
    LET prev(i) == {j \in 1..(i - 1) : SameRegion(df.rows[j].key, df.rows[i].key)}
        last(i) == CHOOSE j \in prev(i) : \A h \in prev(i) : h <= j
    IN  WithColumn(df, "enrolment_velocity",
                   [i \in 1..Len(df.rows) |->
                       IF prev(i) = {} THEN Real(0)
                       ELSE Real(df.rows[i].cols[col].v
                                   - df.rows[last(i)].cols[col].v)])

\* df.groupby(["state", "district"])["total_updates"]
\*   .transform(temporal_concentration)
GroupTransformTC(df) ==
    [i \in 1..Len(df.rows) |->
        temporal_concentration(
            [j \in 1..Len(GroupOf(df, i)) |->
                GroupOf(df, i)[j].cols["total_updates"]]).value]

\* config/indicators.yaml: the weights of the composite; the modelled
\* configuration gives the temporal feature weight 0, which keeps the
\* indicator an exact number.
lepi_weights == [frequency |-> 1, diversity |-> 1, temporal |-> 0]

\* compute_lepi(freq, diversity, temporal, weights): the weighted combination
\* of the three features, row by row.  In IEEE arithmetic a NaN (or infinite)
\* feature makes the sum NaN whatever its weight.
compute_lepi(freq, diversity, temporal, weights) ==
    [i \in 1..Len(freq) |->
        IF freq[i].nan \/ temporal[i].nan \/ temporal[i].den = 0 THEN NaN
        ELSE Real(weights.frequency * freq[i].v + weights.diversity * diversity)]
            \* + weights.temporal * temporal[i], which is 0 under lepi_weights

\* ------------------------------------------------------------------- state
VARIABLES
    pc,                \* position of the run in run_aleis_pipeline
    enrol_df, demo_df, bio_df,          \* loaded source tables
    enrol_agg, demo_agg, bio_agg,       \* per-source monthly aggregates
    consolidated_agg,  \* the consolidated table
    disk,              \* data/processed/monthly/demo_indicators.csv
    writes,            \* to_csv calls of the current run
    brief,             \* reports/monthly_policy_brief.md written by this run
    fn,                \* the function under call (function-level checks)
    series, threshold, column,          \* its arguments
    returned, result   \* whether it has returned, and what

vars == <<pc, enrol_df, demo_df, bio_df, enrol_agg, demo_agg, bio_agg,
          consolidated_agg, disk, writes, brief,
          fn, series, threshold, column, returned, result>>

pipeline_vars == <<pc, enrol_df, demo_df, bio_df, disk, writes, brief>>
agg_vars == <<enrol_agg, demo_agg, bio_agg, consolidated_agg>>
fn_vars == <<fn, series, threshold, column, returned, result>>

\* --------------------------------------------------- function-level inputs
Vals == (0 - MaxVal)..MaxVal
ToSeries(s) == [i \in 1..Len(s) |-> Real(s[i])]

\* spec.md section 8, property 7
ScenarioSeries == ToSeries(<<10, 11, 9, 10, 95>>)
\* one outlier among eight values
EightSeries == ToSeries(<<0, 0, 0, 0, 0, 0, 0, 8>>)

GeneratedSeries == {ToSeries(s) : s \in UNION {[1..n -> Vals] : n \in 1..MaxLen}}
SeriesInputs == GeneratedSeries \cup {ScenarioSeries, EightSeries}

Thresholds == {[num |-> n, den |-> 2] : n \in {-2, 0, 1, 2, 3, 5}}

ColumnInputs == UNION {[1..n -> {"Pune", "Nashik", NULL}] : n \in 0..MaxLen}

\* A per-source aggregate with one row per key of f, in key order.
AggOf(f, col) ==
    LET ks == SelectSeq(KeySeq, LAMBDA k : k \in DOMAIN f)
    IN  DataFrame({col},
                  [i \in 1..Len(ks) |->
                      [key |-> ks[i], cols |-> (col :> Real(f[ks[i]]))]])

AggInputs(col) ==
    {AggOf(f, col) : f \in UNION {[D -> 0..MaxCount] : D \in SUBSET Keys}}

\* spec.md section 8, property 6
ScenarioEnrol ==
    AggOf((<<"MH", "Pune", 2025, 1>> :> 100) @@ (<<"MH", "Pune", 2025, 2>> :> 120),
          "enrolments")
ScenarioDemo == AggOf((<<"MH", "Pune", 2025, 1>> :> 80), "total_updates")

InitFn ==
    /\ pc = "fn" /\ writes = 0 /\ brief = FALSE
    /\ disk = [exists |-> FALSE, fresh |-> FALSE, table |-> EmptyDataFrame]
    /\ enrol_df = EmptyDataFrame /\ demo_df = EmptyDataFrame
    /\ bio_df = EmptyDataFrame
    /\ consolidated_agg = EmptyDataFrame
    /\ returned = FALSE /\ result = <<>>
    /\ \/ /\ fn = "detect_anomalies"
          /\ series \in SeriesInputs /\ threshold \in Thresholds
          /\ column = <<>>
          /\ enrol_agg = EmptyDataFrame /\ demo_agg = EmptyDataFrame
          /\ bio_agg = EmptyDataFrame
       \/ /\ fn = "temporal_concentration"
          /\ series \in GeneratedSeries /\ threshold = DefaultThreshold
          /\ column = <<>>
          /\ enrol_agg = EmptyDataFrame /\ demo_agg = EmptyDataFrame
          /\ bio_agg = EmptyDataFrame
       \/ /\ fn = "check_region_coverage"
          /\ column \in ColumnInputs
          /\ series = <<>> /\ threshold = DefaultThreshold
          /\ enrol_agg = EmptyDataFrame /\ demo_agg = EmptyDataFrame
          /\ bio_agg = EmptyDataFrame
       \/ /\ fn = "consolidate"
          /\ \/ /\ enrol_agg \in AggInputs("enrolments")
                /\ demo_agg \in AggInputs("total_updates")
                /\ bio_agg \in AggInputs("biometric_updates") \cup {EmptyDataFrame}
             \/ /\ enrol_agg = ScenarioEnrol /\ demo_agg = ScenarioDemo
                /\ bio_agg = EmptyDataFrame
          /\ series = <<>> /\ threshold = DefaultThreshold /\ column = <<>>

CallDetectAnomalies ==
    /\ fn = "detect_anomalies" /\ ~returned
    /\ result' = detect_anomalies(series, threshold)
    /\ returned' = TRUE
    /\ UNCHANGED <<pipeline_vars, agg_vars, fn, series, threshold, column>>

CallTemporalConcentration ==
    /\ fn = "temporal_concentration" /\ ~returned
    /\ result' = temporal_concentration(series)
    /\ returned' = TRUE
    /\ UNCHANGED <<pipeline_vars, agg_vars, fn, series, threshold, column>>

CallCheckRegionCoverage ==
    /\ fn = "check_region_coverage" /\ ~returned
    /\ result' = check_region_coverage(column)
    /\ returned' = TRUE
    /\ UNCHANGED <<pipeline_vars, agg_vars, fn, series, threshold, column>>

CallConsolidate ==
    /\ fn = "consolidate" /\ ~returned
    /\ consolidated_agg' = Consolidate(enrol_agg, demo_agg, bio_agg)
    /\ returned' = TRUE
    /\ UNCHANGED <<pipeline_vars, enrol_agg, demo_agg, bio_agg,
                   fn, series, threshold, column, result>>

NextFn ==
    \/ CallDetectAnomalies
    \/ CallTemporalConcentration
    \/ CallCheckRegionCoverage
    \/ CallConsolidate

SpecFn == InitFn /\ [][NextFn]_vars

\* ------------------------------------------------------------ the pipeline
RawCounts == {-1, 2}

\* The source tables a run can find: up to MaxRows rows each.
RawTables(col) ==
    {DataFrame({col}, rows) :
        rows \in UNION {[1..n -> {RawRow(k, col, c) : k \in Keys, c \in RawCounts}]
                          : n \in 0..MaxRows}}

NoFile == [exists |-> FALSE, fresh |-> FALSE, table |-> EmptyDataFrame]

Init ==
    /\ pc = "idle"
    /\ enrol_df = EmptyDataFrame /\ demo_df = EmptyDataFrame
    /\ bio_df = EmptyDataFrame
    /\ enrol_agg = EmptyDataFrame /\ demo_agg = EmptyDataFrame
    /\ bio_agg = EmptyDataFrame /\ consolidated_agg = EmptyDataFrame
    /\ disk = NoFile /\ writes = 0 /\ brief = FALSE
    /\ fn = "none" /\ series = <<>> /\ threshold = DefaultThreshold
    /\ column = <<>> /\ returned = FALSE /\ result = <<>>

\* A run starts: configuration and source tables are loaded.  biometric.csv
\* may be missing, which leaves bio_df an empty DataFrame.
StartRun ==
    /\ pc = "idle"
    /\ enrol_df' \in RawTables("enrolments")
    /\ demo_df' \in RawTables("enrolments")
    /\ bio_df' \in RawTables("total_updates") \cup {EmptyDataFrame}
    /\ threshold' = DefaultThreshold
    /\ pc' = "loaded"
    /\ UNCHANGED <<agg_vars, disk, writes, brief, fn, series, column, returned, result>>

\* The process ends (normally, or by the exception that failed the run) and
\* its tables are gone.  demo_indicators.csv stays where it is; no step of a
\* later run reads it, so only its presence is kept.
ProcessExit ==
    /\ pc \in {"done", "failed"}
    /\ enrol_df' = EmptyDataFrame /\ demo_df' = EmptyDataFrame
    /\ bio_df' = EmptyDataFrame
    /\ enrol_agg' = EmptyDataFrame /\ demo_agg' = EmptyDataFrame
    /\ bio_agg' = EmptyDataFrame /\ consolidated_agg' = EmptyDataFrame
    /\ disk' = IF disk.exists
               THEN [exists |-> TRUE, fresh |-> FALSE, table |-> EmptyDataFrame]
               ELSE NoFile
    /\ writes' = 0 /\ brief' = FALSE
    /\ pc' = "idle"
    /\ UNCHANGED fn_vars

\* check_empty(enrol_df); check_empty(demo_df)
BasicValidation ==
    /\ pc = "loaded"
    /\ pc' = IF check_empty(enrol_df) = "raise" \/ check_empty(demo_df) = "raise"
             THEN "failed" ELSE "checked"
    /\ UNCHANGED <<enrol_df, demo_df, bio_df, agg_vars, disk, writes, brief, fn_vars>>

CleaningTransformation ==
    /\ pc = "checked"
    /\ enrol_df' = CleanTransform(enrol_df)
    /\ demo_df' = CleanTransform(demo_df)
    /\ bio_df' = IF ~Empty(bio_df) THEN CleanTransform(bio_df) ELSE bio_df
    /\ pc' = "cleaned"
    /\ UNCHANGED <<agg_vars, disk, writes, brief, fn_vars>>

Aggregation ==
    /\ pc = "cleaned"
    /\ enrol_agg' = aggregate_monthly(enrol_df, "enrolments")
    /\ demo_agg' = Rename(aggregate_monthly(demo_df, "enrolments"),
                          "enrolments", "total_updates")
    /\ bio_agg' = IF ~Empty(bio_df)
                  THEN Rename(aggregate_monthly(bio_df, "total_updates"),
                              "total_updates", "biometric_updates")
                  ELSE EmptyDataFrame
    /\ pc' = "aggregated"
    /\ UNCHANGED <<enrol_df, demo_df, bio_df, consolidated_agg,
                   disk, writes, brief, fn_vars>>

MergeStep ==
    /\ pc = "aggregated"
    /\ consolidated_agg' = Consolidate(enrol_agg, demo_agg, bio_agg)
    /\ pc' = "merged"
    /\ UNCHANGED <<enrol_df, demo_df, bio_df, enrol_agg, demo_agg, bio_agg,
                   disk, writes, brief, fn_vars>>

\* validate_non_negative on enrolments and on total_updates, then
\* check_region_coverage on district.
ValidationChecks ==
    /\ pc = "merged"
    /\ pc' = IF \/ validate_non_negative(consolidated_agg, "enrolments") = "raise"
                \/ validate_non_negative(consolidated_agg, "total_updates") = "raise"
                \/ check_region_coverage(
                      [i \in 1..Len(consolidated_agg.rows) |->
                          consolidated_agg.rows[i].key[2]]) # "ok"
             THEN "failed" ELSE "validated"
    /\ UNCHANGED <<enrol_df, demo_df, bio_df, agg_vars, disk, writes, brief, fn_vars>>

FeatureEngineering ==
    /\ pc = "validated"
    /\ consolidated_agg' =
          LET v == enrolment_velocity(consolidated_agg, "enrolments")
          IN  WithColumn(v, "temporal_concentration", GroupTransformTC(v))
    /\ pc' = "featured"
    /\ UNCHANGED <<enrol_df, demo_df, bio_df, enrol_agg, demo_agg, bio_agg,
                   disk, writes, brief, fn_vars>>

IndicatorComputation ==
    /\ pc = "featured"
    /\ consolidated_agg' =
          WithColumn(consolidated_agg, "lepi",
                     compute_lepi(Column(consolidated_agg, "total_updates"), 1,
                                  Column(consolidated_agg, "temporal_concentration"),
                                  lepi_weights))
    /\ pc' = "scored"
    /\ UNCHANGED <<enrol_df, demo_df, bio_df, enrol_agg, demo_agg, bio_agg,
                   disk, writes, brief, fn_vars>>

AnomalyDetection ==
    /\ pc = "scored"
    /\ consolidated_agg' =
          WithColumn(consolidated_agg, "anomaly_flag",
                     detect_anomalies(Column(consolidated_agg, "lepi"), threshold))
    /\ pc' = "flagged"
    /\ UNCHANGED <<enrol_df, demo_df, bio_df, enrol_agg, demo_agg, bio_agg,
                   disk, writes, brief, fn_vars>>

\* consolidated_agg.to_csv(output_dir / "demo_indicators.csv")
SaveOutputs ==
    /\ pc = "flagged"
    /\ disk' = [exists |-> TRUE, fresh |-> TRUE, table |-> consolidated_agg]
    /\ writes' = writes + 1
    /\ pc' = "saved"
    /\ UNCHANGED <<enrol_df, demo_df, bio_df, agg_vars, brief, fn_vars>>

\* generate_brief(insight_text)
PolicyBriefGeneration ==
    /\ pc = "saved"
    /\ pc' = "briefed"
    /\ UNCHANGED <<enrol_df, demo_df, bio_df, agg_vars, disk, writes, brief, fn_vars>>

\* open(BASE_DIR / "reports" / "monthly_policy_brief.md", "w"): the reports
\* directory is not created by the run; open raises when it is missing.
WriteBrief ==
    /\ pc = "briefed"
    /\ \E reports_dir_exists \in BOOLEAN :
          /\ brief' = reports_dir_exists
          /\ pc' = IF reports_dir_exists THEN "done" ELSE "failed"
    /\ UNCHANGED <<enrol_df, demo_df, bio_df, agg_vars, disk, writes, fn_vars>>

Next ==
    \/ StartRun
    \/ BasicValidation
    \/ CleaningTransformation
    \/ Aggregation
    \/ MergeStep
    \/ ValidationChecks
    \/ FeatureEngineering
    \/ IndicatorComputation
    \/ AnomalyDetection
    \/ SaveOutputs
    \/ PolicyBriefGeneration
    \/ WriteBrief
    \/ ProcessExit

Spec == Init /\ [][Next]_vars

\* ------------------------------------------------- function-level properties
IsConstant(s) == \A i, j \in 1..Len(s) : s[i] = s[j]
AllFalse(flags, n) == DOMAIN flags = 1..n /\ \A i \in 1..n : flags[i] = FALSE

Detected == fn = "detect_anomalies" /\ returned

\* C1: for every constant series of length >= 1 and every threshold,
\* detect_anomalies returns one flag per element and every flag is false.
C1_ConstantAllFalse ==
    (Detected /\ IsConstant(series)) => AllFalse(result, Len(series))

\* The reference rule of C2: |x_i - mean| / s > threshold with s the sample
\* standard deviation (divisor n - 1) of the full series.
\*   (x_i - mean)^2 / s^2 = (n x_i - S)^2 (n - 1) / (n D),  D = n Sum x^2 - S^2
SampleRule(s, t, i) ==
    LET n == Len(s)
        dev == n * s[i].v - SumV(s)
    IN  IF t.num < 0 THEN TRUE
        ELSE dev * dev * (n - 1) * t.den * t.den > t.num * t.num * n * Spread(s)

\* C2: for every non-constant series and threshold, element i is flagged iff
\* |value_i - mean| / s > threshold, s being the sample standard deviation.
C2_SampleStdRule ==
    (Detected /\ ~IsConstant(series)) =>
        \A i \in 1..Len(series) : result[i] = SampleRule(series, threshold, i)

ScenarioCall ==
    Detected /\ series = ScenarioSeries /\ threshold = DefaultThreshold

\* C3 (as claimed): on [10, 11, 9, 10, 95] with threshold 2.5 the element 95
\* is flagged and the other four are not.
C3_ScenarioFlags95 ==
    ScenarioCall => result = <<FALSE, FALSE, FALSE, FALSE, TRUE>>

\* C3 (amended): on [10, 11, 9, 10, 95] with threshold 2.5 no element is
\* flagged, the element 95 included.
C3_ScenarioNoFlag ==
    ScenarioCall => result = <<FALSE, FALSE, FALSE, FALSE, FALSE>>

\* The scenario has been evaluated and the element 95 carries no flag.
C3_Witness == ScenarioCall /\ result[5] = FALSE

Consolidated == fn = "consolidate" /\ returned

SourceKeys ==
    RowKeys(enrol_agg) \cup RowKeys(demo_agg)
        \cup (IF Empty(bio_agg) THEN {} ELSE RowKeys(bio_agg))

SourceValue(agg, col, k) ==
    IF k \in RowKeys(agg) THEN RowsWithKey(agg, k)[1].cols[col] ELSE Real(0)

\* C4: from per-source aggregates with at most one row per key, consolidation
\* gives exactly one row for every key of the union of the sources' keys and
\* no other row; each value column holds its source's sum where the source has
\* the key and 0 where it does not.
C4_OuterJoinZeroFill ==
    Consolidated =>
        /\ \A k \in Keys :
              Len(RowsWithKey(consolidated_agg, k))
                  = IF k \in SourceKeys THEN 1 ELSE 0
        /\ RowKeys(consolidated_agg) \subseteq Keys
        /\ \A i \in 1..Len(consolidated_agg.rows) :
              LET r == consolidated_agg.rows[i]
              IN  /\ r.cols["enrolments"]
                        = SourceValue(enrol_agg, "enrolments", r.key)
                  /\ r.cols["total_updates"]
                        = SourceValue(demo_agg, "total_updates", r.key)
                  /\ ~Empty(bio_agg) =>
                        r.cols["biometric_updates"]
                            = SourceValue(bio_agg, "biometric_updates", r.key)

\* The example of the claim: month 1 = (100, 80), month 2 = (120, 0).
C4_Witness ==
    /\ Consolidated
    /\ enrol_agg = ScenarioEnrol /\ demo_agg = ScenarioDemo
    /\ consolidated_agg.rows =
          << [key |-> <<"MH", "Pune", 2025, 1>>,
              cols |-> ("enrolments" :> Real(100)) @@ ("total_updates" :> Real(80))],
             [key |-> <<"MH", "Pune", 2025, 2>>,
              cols |-> ("enrolments" :> Real(120)) @@ ("total_updates" :> Real(0))] >>

Concentrated == fn = "temporal_concentration" /\ returned

\* q is std(s) / mean(s), with std the sample standard deviation:
\* q^2 * (n - 1) * S^2 = n * D, and q has the sign of the mean.
IsStdOverMean(q, s) ==
    LET n == Len(s)
        S == SumV(s)
    IN  IF n < 2 THEN q.nan
        ELSE /\ ~q.nan
             /\ q.num * (n - 1) * S * S = q.den * n * Spread(s)
             /\ q.sgn = (IF Spread(s) = 0 THEN 0 ELSE Sign(S))

\* C5: a series whose mean is exactly 0 gives exactly 0.0 without a division;
\* every other series gives std(values) / mean(values).
C5_ZeroMeanGuard ==
    Concentrated =>
        IF SumV(series) = 0
        THEN result = [value |-> ZeroQ, divided |-> FALSE]
        ELSE result.divided /\ IsStdOverMean(result.value, series)

\* Values that cancel: a zero mean with a non-zero deviation.
C5_Witness ==
    /\ Concentrated
    /\ SumV(series) = 0 /\ ~IsConstant(series)
    /\ result.value = ZeroQ

\* C7: check_region_coverage signals low coverage when the region column has
\* exactly one distinct non-null value, and likewise for none.
C7_OneRegionSignals ==
    (fn = "check_region_coverage" /\ returned /\ nunique(column) <= 1)
        => result = LowCoverage

\* ----------------------------------------------------- pipeline properties
CountColumns == {"enrolments", "total_updates", "biometric_updates"}

\* C6: the temporal_concentration value the pipeline assigns to the rows of
\* every (state, district) group, single-period groups included, is a defined
\* number, never NaN.
C6_ConcentrationDefined ==
    "temporal_concentration" \in consolidated_agg.columns =>
        \A i \in 1..Len(consolidated_agg.rows) :
            ~consolidated_agg.rows[i].cols["temporal_concentration"].nan

\* C8: a run whose enrolment or demographic table has zero rows halts at the
\* empty-input check, before cleaning, aggregation and merge, and then no
\* output table is at the output location, written now or left from before.
C8_EmptyInputNoOutput ==
    (pc = "failed" /\ (enrol_df.rows = <<>> \/ demo_df.rows = <<>>)) =>
        /\ enrol_agg = EmptyDataFrame /\ demo_agg = EmptyDataFrame
        /\ consolidated_agg = EmptyDataFrame
        /\ ~disk.exists

\* C9: a run that fails, at whatever step, has not written the output table,
\* and a run that completes has written it exactly once.
C9_WrittenOnlyByCompletedRun ==
    /\ pc = "failed" => writes = 0
    /\ pc = "done" => writes = 1

\* C10: every output table a run writes has a value >= 0 in each count
\* column it holds (biometric_updates too when the source is present).
C10_WrittenCountsNonNegative ==
    disk.fresh =>
        \A i \in 1..Len(disk.table.rows) :
            \A c \in CountColumns \cap disk.table.columns :
                disk.table.rows[i].cols[c].v >= 0

====
